---- MODULE Spec2Model ----
(***************************************************************************)
(* toy_payments: the ledger engine (src/src/engine.rs), its transaction    *)
(* store with the tx-id index (src/src/transaction.rs) and its account     *)
(* table (src/src/account.rs).                                             *)
(*                                                                         *)
(* Decimal balances are modelled as integers (a count of 0.0001 units):    *)
(* the engine only adds, subtracts and compares them.  Store positions are *)
(* 0-based as in the Vec; TLA+ sequences are 1-based, so position i is     *)
(* element i + 1.                                                          *)
(***************************************************************************)
EXTENDS Integers, Sequences, FiniteSets, TLC

\* ------------------------------------------------------------------ bounds
NumClients == 2
NumTx == 2
MaxAmount == 2
MaxRecords == 3

Clients == 1..NumClients
TxIds == 1..NumTx

\* Option<Decimal>::None (a value no amount takes)
NoAmount == -1

Types == {"Deposit", "Withdrawal", "Dispute", "Resolve", "Chargeback"}

\* The records one input row can become: the reader leaves disputed at its
\* default (serde skip), the amount column is optional, and the engine never
\* reads the amount of a dispute-family record, which is modelled as absent.
\* Amounts are not negative: the data model has Deposit and Withdrawal amounts
\* non-negative, and the engine does not validate them.
InputRecords ==
    [type : {"Deposit", "Withdrawal"}, client : Clients, tx : TxIds,
     amount : (0..MaxAmount) \cup {NoAmount}, disputed : {FALSE}]
    \cup
    [type : {"Dispute", "Resolve", "Chargeback"}, client : Clients, tx : TxIds,
     amount : {NoAmount}, disputed : {FALSE}]

\* The same rows with one amount only: the inputs of the longer runs.
DeepRecords == {r \in InputRecords : r.amount \in {MaxAmount, NoAmount}
                                      /\ (r.type \in {"Deposit", "Withdrawal"}
                                            => r.amount = MaxAmount)}

\* The batches of k records drawn from recs.
Batches(recs, k) == [1..k -> recs]

\* ------------------------------------------------------------------- state
VARIABLES
    accounts,       \* Engine.accounts: client id -> Account (a BTreeMap)
    transactions,   \* Engine.transactions.transactions: the Vec of records
    tx_index_map,   \* Engine.transactions.tx_index_map: tx id -> position
    last_processed_transaction_index,   \* Engine's cursor
    pc,             \* "idle": between process calls; "loop": inside the for loop
    index,          \* the for loop's variable
    handed          \* history: the positions passed to process_transaction so far

vars == <<accounts, transactions, tx_index_map,
          last_processed_transaction_index, pc, index, handed>>

\* ---------------------------------------------------------------- accounts
\* Mutant: a new account starts locked.
NewAccount_Locked(client) ==
    [client |-> client, available |-> 0, held |-> 0, total |-> 0, locked |-> TRUE]

\* Account::new
NewAccount(client) ==
    [client |-> client, available |-> 0, held |-> 0, total |-> 0, locked |-> FALSE]

\* Accounts::get_mut: the table after entry(client).or_insert_with(Account::new).
GetMut(accts, client) ==
    IF client \in DOMAIN accts
    THEN accts
    ELSE [c \in (DOMAIN accts) \cup {client} |->
            IF c = client THEN NewAccount(client) ELSE accts[c]]

\* ------------------------------------------------------------ transactions
\* Transactions::get on a position in range.
Get(txs, i) == txs[i + 1]

\* Mutant: an existing key keeps its value (entry().or_insert).
MapInsert_KeepFirst(map, key, value) ==
    [k \in (DOMAIN map) \cup {key} |->
        IF k \in DOMAIN map THEN map[k] ELSE value]

\* HashMap::insert
MapInsert(map, key, value) ==
    [k \in (DOMAIN map) \cup {key} |-> IF k = key THEN value ELSE map[k]]

\* populate_map's loop over positions i .. len - 1, in ascending order.
RECURSIVE PopulateFrom(_, _, _)
PopulateFrom(txs, map, i) ==
    IF i >= Len(txs)
    THEN map
    ELSE LET t == Get(txs, i)
             m == IF t.type = "Deposit" \/ t.type = "Withdrawal"
                  THEN MapInsert(map, t.tx, i)
                  ELSE map
         IN PopulateFrom(txs, m, i + 1)

PopulateMap(txs, map) == PopulateFrom(txs, map, 0)

\* Transactions::get_tx_mut: the position of the record the handle refers to,
\* or -1 for None.
GetTxMut(txs, map, tx) ==
    IF tx \in DOMAIN map /\ map[tx] < Len(txs) THEN map[tx] ELSE -1

\* -------------------------------------------------------------- the engine
\* Each arm of process_transaction's match maps the pair (account, target
\* record) to the pair after the arm; acct is the client's account, t the
\* record the arm reads.
\* Mutant: the deposit forgets the total.
DepositArm_NoTotal(acct, t) ==
    IF ~t.disputed /\ t.amount # NoAmount
    THEN [acct EXCEPT !.available = @ + t.amount]
    ELSE acct

DepositArm(acct, t) ==
    IF ~t.disputed /\ t.amount # NoAmount
    THEN [acct EXCEPT !.available = @ + t.amount, !.total = @ + t.amount]
    ELSE acct

\* Mutant: the withdrawal does not check the funds.
WithdrawalArm_NoFundsCheck(acct, t) ==
    IF ~t.disputed /\ t.amount # NoAmount
    THEN [acct EXCEPT !.available = @ - t.amount, !.total = @ - t.amount]
    ELSE acct

WithdrawalArm(acct, t) ==
    IF ~t.disputed /\ t.amount # NoAmount
    THEN IF acct.available < t.amount
         THEN acct
         ELSE [acct EXCEPT !.available = @ - t.amount, !.total = @ - t.amount]
    ELSE acct

\* Mutant: the dispute does not check that the target is already disputed.
DisputeArm_NoDisputedCheck(acct, tx) ==
    IF tx.amount # NoAmount
    THEN [account |-> [acct EXCEPT !.available = @ - tx.amount,
                                   !.held = @ + tx.amount],
          tx |-> [tx EXCEPT !.disputed = TRUE]]
    ELSE [account |-> acct, tx |-> tx]

\* Mutant: the dispute freezes the account.
DisputeArm_Locks(acct, tx) ==
    IF tx.disputed
    THEN [account |-> acct, tx |-> tx]
    ELSE IF tx.amount # NoAmount
         THEN [account |-> [acct EXCEPT !.available = @ - tx.amount,
                                        !.held = @ + tx.amount,
                                        !.locked = TRUE],
               tx |-> [tx EXCEPT !.disputed = TRUE]]
         ELSE [account |-> acct, tx |-> tx]

\* Mutant: the dispute forgets to add to held.
DisputeArm_NoHeld(acct, tx) ==
    IF tx.disputed
    THEN [account |-> acct, tx |-> tx]
    ELSE IF tx.amount # NoAmount
         THEN [account |-> [acct EXCEPT !.available = @ - tx.amount],
               tx |-> [tx EXCEPT !.disputed = TRUE]]
         ELSE [account |-> acct, tx |-> tx]

\* The dispute family: tx is the referenced record (get_tx_mut returned Some).
DisputeArm(acct, tx) ==
    IF tx.disputed
    THEN [account |-> acct, tx |-> tx]
    ELSE IF tx.amount # NoAmount
         THEN [account |-> [acct EXCEPT !.available = @ - tx.amount,
                                        !.held = @ + tx.amount],
               tx |-> [tx EXCEPT !.disputed = TRUE]]
         ELSE [account |-> acct, tx |-> tx]

\* Mutant: the resolve leaves the target disputed.
ResolveArm_KeepsDisputed(acct, tx) ==
    IF tx.disputed /\ tx.amount # NoAmount
    THEN [account |-> [acct EXCEPT !.available = @ + tx.amount,
                                   !.held = @ - tx.amount],
          tx |-> tx]
    ELSE [account |-> acct, tx |-> tx]

\* Mutant: the resolve does not check that the target is disputed.
ResolveArm_NoDisputedCheck(acct, tx) ==
    IF tx.amount # NoAmount
    THEN [account |-> [acct EXCEPT !.available = @ + tx.amount,
                                   !.held = @ - tx.amount],
          tx |-> [tx EXCEPT !.disputed = FALSE]]
    ELSE [account |-> acct, tx |-> tx]

ResolveArm(acct, tx) ==
    IF tx.disputed /\ tx.amount # NoAmount
    THEN [account |-> [acct EXCEPT !.available = @ + tx.amount,
                                   !.held = @ - tx.amount],
          tx |-> [tx EXCEPT !.disputed = FALSE]]
    ELSE [account |-> acct, tx |-> tx]

\* Mutant: the chargeback closes the dispute.
ChargebackArm_ClearsDisputed(acct, tx) ==
    IF tx.disputed /\ tx.amount # NoAmount
    THEN [account |-> [acct EXCEPT !.held = @ - tx.amount,
                                   !.total = @ - tx.amount,
                                   !.locked = TRUE],
          tx |-> [tx EXCEPT !.disputed = FALSE]]
    ELSE [account |-> acct, tx |-> tx]

\* Mutant: the chargeback does not lock the account.
ChargebackArm_NoLock(acct, tx) ==
    IF tx.disputed /\ tx.amount # NoAmount
    THEN [account |-> [acct EXCEPT !.held = @ - tx.amount,
                                   !.total = @ - tx.amount],
          tx |-> tx]
    ELSE [account |-> acct, tx |-> tx]

\* Mutant: the chargeback does not check that the target is disputed.
ChargebackArm_NoDisputedCheck(acct, tx) ==
    IF tx.amount # NoAmount
    THEN [account |-> [acct EXCEPT !.held = @ - tx.amount,
                                   !.total = @ - tx.amount,
                                   !.locked = TRUE],
          tx |-> tx]
    ELSE [account |-> acct, tx |-> tx]

ChargebackArm(acct, tx) ==
    IF tx.disputed /\ tx.amount # NoAmount
    THEN [account |-> [acct EXCEPT !.held = @ - tx.amount,
                                   !.total = @ - tx.amount,
                                   !.locked = TRUE],
          tx |-> tx]
    ELSE [account |-> acct, tx |-> tx]

\* Mutant: a locked account is processed like any other.
SkipsLocked_Never(acct) == FALSE

\* The early return on a locked account.
SkipsLocked(acct) == acct.locked

\* Mutant: the dispute family works on the account of the target's client.
ProcessTransaction_TargetOwner(accts, txs, map, current_transaction_index, client) ==
    LET accts1 == GetMut(accts, client)
        account == accts1[client]
        transaction == Get(txs, current_transaction_index)
        target == GetTxMut(txs, map, transaction.tx)
        owner == Get(txs, target).client
        accts2 == GetMut(accts1, owner)
        arm == CASE transaction.type = "Dispute" ->
                      DisputeArm(accts2[owner], Get(txs, target))
                 [] transaction.type = "Resolve" ->
                      ResolveArm(accts2[owner], Get(txs, target))
                 [] transaction.type = "Chargeback" ->
                      ChargebackArm(accts2[owner], Get(txs, target))
    IN  IF SkipsLocked(account)
        THEN [accounts |-> accts1, transactions |-> txs]
        ELSE CASE transaction.type = "Deposit" ->
                    [accounts |-> [accts1 EXCEPT ![client] =
                                       DepositArm(account, transaction)],
                     transactions |-> txs]
               [] transaction.type = "Withdrawal" ->
                    [accounts |-> [accts1 EXCEPT ![client] =
                                       WithdrawalArm(account, transaction)],
                     transactions |-> txs]
               [] OTHER ->
                    IF target = -1
                    THEN [accounts |-> accts1, transactions |-> txs]
                    ELSE [accounts |-> [accts2 EXCEPT ![owner] = arm.account],
                          transactions |-> [txs EXCEPT ![target + 1] = arm.tx]]

\* Engine::process_transaction: the account table and the store after it.
ProcessTransaction(accts, txs, map, current_transaction_index, client) ==
    LET accts1 == GetMut(accts, client)
        account == accts1[client]
        transaction == Get(txs, current_transaction_index)
        target == GetTxMut(txs, map, transaction.tx)
        arm == CASE transaction.type = "Dispute" ->
                      DisputeArm(account, Get(txs, target))
                 [] transaction.type = "Resolve" ->
                      ResolveArm(account, Get(txs, target))
                 [] transaction.type = "Chargeback" ->
                      ChargebackArm(account, Get(txs, target))
    IN  IF SkipsLocked(account)
        THEN [accounts |-> accts1, transactions |-> txs]
        ELSE CASE transaction.type = "Deposit" ->
                    [accounts |-> [accts1 EXCEPT ![client] =
                                       DepositArm(account, transaction)],
                     transactions |-> txs]
               [] transaction.type = "Withdrawal" ->
                    [accounts |-> [accts1 EXCEPT ![client] =
                                       WithdrawalArm(account, transaction)],
                     transactions |-> txs]
               [] OTHER ->
                    IF target = -1
                    THEN [accounts |-> accts1, transactions |-> txs]
                    ELSE [accounts |-> [accts1 EXCEPT ![client] = arm.account],
                          transactions |-> [txs EXCEPT ![target + 1] = arm.tx]]

\* The for loop of Engine::process from position i on: process_transaction
\* on every position up to the end of the store, in ascending order.
RECURSIVE RunLoop(_, _, _, _)
RunLoop(accts, txs, map, i) ==
    IF i >= Len(txs)
    THEN [accounts |-> accts, transactions |-> txs]
    ELSE LET r == ProcessTransaction(accts, txs, map, i, Get(txs, i).client)
         IN RunLoop(r.accounts, r.transactions, map, i + 1)

\* Mutant: the cursor is never advanced.
NewCursor_Stale(txs) == 0

\* The cursor Engine::process leaves behind.
NewCursor(txs) == Len(txs)

\* Engine::new followed by one process(trxs) call: the account table after it.
OneCall(trxs) ==
    RunLoop(<< >>, trxs, PopulateMap(trxs, << >>), 0).accounts

\* ---------------------------------------------------------------- actions
\* Accounts::new() and Engine::new(accounts).
Init ==
    /\ accounts = << >>
    /\ transactions = << >>
    /\ tx_index_map = << >>
    /\ last_processed_transaction_index = 0
    /\ pc = "idle"
    /\ index = 0
    /\ handed = << >>

\* Engine::process up to the for loop: extend the store (which repopulates
\* the index over the whole store) and start at the cursor.
Process(trxs) ==
    /\ pc = "idle"
    /\ transactions' = transactions \o trxs
    /\ tx_index_map' = PopulateMap(transactions', tx_index_map)
    /\ index' = last_processed_transaction_index
    /\ pc' = "loop"
    /\ UNCHANGED <<accounts, last_processed_transaction_index, handed>>

\* One iteration of the for loop.
LoopStep ==
    /\ pc = "loop"
    /\ index < Len(transactions)
    /\ LET r == ProcessTransaction(accounts, transactions, tx_index_map, index,
                                   Get(transactions, index).client)
       IN /\ accounts' = r.accounts
          /\ transactions' = r.transactions
    /\ index' = index + 1
    /\ handed' = Append(handed, index)
    /\ UNCHANGED <<tx_index_map, last_processed_transaction_index, pc>>

\* The loop is over: record the cursor and return.
LoopExit ==
    /\ pc = "loop"
    /\ index >= Len(transactions)
    /\ last_processed_transaction_index' = NewCursor(transactions)
    /\ pc' = "idle"
    /\ UNCHANGED <<accounts, transactions, tx_index_map, index, handed>>

\* A process call on any batch of recs that keeps the store within n records.
ProcessAny(recs, n) ==
    \E k \in 0..(n - Len(transactions)) :
        \E trxs \in Batches(recs, k) : Process(trxs)

Next ==
    \/ ProcessAny(InputRecords, MaxRecords)
    \/ LoopStep
    \/ LoopExit

Spec == Init /\ [][Next]_vars

\* Longer runs over fewer kinds of rows.
NextDeep ==
    \/ ProcessAny(DeepRecords, MaxRecords + 1)
    \/ LoopStep
    \/ LoopExit

SpecDeep == Init /\ [][NextDeep]_vars

\* ----------------------------------------------------------------- views
\* The record the loop is about to hand to process_transaction.
Cur == Get(transactions, index)

\* The record the loop handed to process_transaction last.
Prev == Get(transactions, index - 1)

\* The loop is about to process a record / has just processed one.
AtRecord == pc = "loop" /\ index < Len(transactions)
AfterRecord == pc = "loop" /\ index >= 1

\* Client c's account as process_transaction sees it after get_mut.
Seen(accts, c) == GetMut(accts, c)[c]

Balances(a) == <<a.available, a.held, a.total>>

\* The target of the record about to be processed (-1: none).
CurTarget == GetTxMut(transactions, tx_index_map, Cur.tx)

\* The rows as they were read: every record with disputed at its default.
Inputs == [p \in 1..Len(transactions) |->
             [transactions[p] EXCEPT !.disputed = FALSE]]

\* ------------------------------------------------------------------ claims
\* C1: from an empty account table, after every processor step and every
\* process call, every account has total = available + held.
C1_BalanceInvariant ==
    \A c \in DOMAIN accounts :
        accounts[c].total = accounts[c].available + accounts[c].held

\* C1's case: an account with funds on both sides of the sum.
C1_Witness ==
    \E c \in DOMAIN accounts :
        accounts[c].available > 0 /\ accounts[c].held > 0

\* C2 (as claimed): whatever the split into batches, the account table after
\* the calls equals the table a fresh engine has after one call on the
\* concatenation of the batches.
C2_SplitEqualsOneCall ==
    pc = "idle" => accounts = OneCall(Inputs)

\* C3: a Withdrawal with an amount never takes available below zero: with
\* available < amount the account's balances are unchanged, otherwise
\* available is >= 0 after the record.
C3_WithdrawalNeverOverdraws ==
    [][(LoopStep /\ Cur.type = "Withdrawal" /\ Cur.amount # NoAmount) =>
         LET before == Seen(accounts, Cur.client)
             after == accounts'[Cur.client]
         IN IF before.available < Cur.amount
            THEN Balances(after) = Balances(before)
            ELSE after.available >= 0]_vars

\* C3's case: a withdrawal larger than the funds left by a deposit was
\* processed and the funds are still there.
C3_Witness ==
    /\ AfterRecord
    /\ index >= 2
    /\ Prev.type = "Withdrawal" /\ Prev.amount # NoAmount
    /\ Get(transactions, index - 2).type = "Deposit"
    /\ Get(transactions, index - 2).client = Prev.client
    /\ accounts[Prev.client].available > 0
    /\ accounts[Prev.client].available < Prev.amount
    /\ accounts[Prev.client].total = accounts[Prev.client].available

\* C4: a locked account stays locked, and no later record of any kind, in
\* the same or a later batch, changes its available, held or total.
C4_LockPermanence ==
    [][\A c \in DOMAIN accounts :
         accounts[c].locked =>
             /\ accounts'[c].locked
             /\ Balances(accounts'[c]) = Balances(accounts[c])]_vars

\* C4's case: a deposit with an amount, not disputed, was handed to the
\* processor for a locked client (a deposit locks nothing, so the client was
\* locked before it).
C4_Witness ==
    /\ AfterRecord
    /\ Prev.type = "Deposit" /\ Prev.amount # NoAmount /\ ~Prev.disputed
    /\ Prev.client \in DOMAIN accounts
    /\ accounts[Prev.client].locked

\* C5: a Dispute whose target is already disputed changes neither the
\* disputing client's balances nor any record's disputed flag.
C5_DoubleDisputeNoOp ==
    [][(LoopStep /\ Cur.type = "Dispute" /\ CurTarget # -1
          /\ Get(transactions, CurTarget).disputed) =>
         /\ Balances(accounts'[Cur.client])
              = Balances(Seen(accounts, Cur.client))
         /\ transactions' = transactions]_vars

\* C5's case: two Disputes of one target in a row by its unlocked owner; the
\* amount is held once.
C5_Witness ==
    /\ AfterRecord
    /\ index >= 3
    /\ Prev.type = "Dispute"
    /\ Get(transactions, index - 2) = Prev
    /\ LET target == GetTxMut(transactions, tx_index_map, Prev.tx)
       IN /\ target # -1
          /\ target < index - 2
          /\ Get(transactions, target).disputed
          /\ Get(transactions, target).client = Prev.client
          /\ ~accounts[Prev.client].locked
          /\ accounts[Prev.client].held = Get(transactions, target).amount

\* C6: a Resolve or Chargeback whose target is absent or not disputed changes
\* no account and no disputed flag; and a disputed flag is raised only by a
\* Dispute record with that target, so an effective Resolve or Chargeback
\* follows an effective Dispute of its target.
C6_ResolveChargebackNeedDispute ==
    [][LoopStep =>
         /\ (/\ Cur.type \in {"Resolve", "Chargeback"}
             /\ (CurTarget = -1 \/ ~Get(transactions, CurTarget).disputed))
            => /\ accounts' = GetMut(accounts, Cur.client)
               /\ transactions' = transactions
         /\ \A p \in 1..Len(transactions) :
              (~transactions[p].disputed /\ transactions'[p].disputed)
                 => Cur.type = "Dispute" /\ CurTarget = p - 1]_vars

\* C6's case: a Resolve of a deposit nobody disputed was processed for the
\* deposit's unlocked owner, whose funds are all still available.
C6_Witness ==
    /\ AfterRecord
    /\ Prev.type = "Resolve"
    /\ LET target == GetTxMut(transactions, tx_index_map, Prev.tx)
       IN /\ target # -1
          /\ target < index - 1
          /\ Get(transactions, target).type = "Deposit"
          /\ Get(transactions, target).client = Prev.client
          /\ ~Get(transactions, target).disputed
          /\ ~accounts[Prev.client].locked
          /\ accounts[Prev.client].held = 0
          /\ accounts[Prev.client].available > 0

\* The rows of client c, in their order.
OwnRecords(c) == SelectSeq(Inputs, LAMBDA r : r.client = c)

\* The first process call that found records has run its loop to the end:
\* the engine is a fresh one after one call on the whole input.
FirstCallDone ==
    /\ pc = "loop"
    /\ last_processed_transaction_index = 0
    /\ index >= Len(transactions)

\* C7 (as claimed): a client's final account depends on that client's own
\* records only: it equals the account a fresh engine gives the client from
\* the input with every other client's record removed.
C7_AccountsIndependent ==
    FirstCallDone =>
        \A c \in Clients :
            LET own == OneCall(OwnRecords(c))
            IN /\ (c \in DOMAIN accounts) = (c \in DOMAIN own)
               /\ c \in DOMAIN accounts => accounts[c] = own[c]

\* The record about to be processed breaks a business rule.
CurViolatesRule ==
    \/ Seen(accounts, Cur.client).locked
    \/ /\ Cur.type = "Withdrawal"
       /\ Cur.amount # NoAmount
       /\ Seen(accounts, Cur.client).available < Cur.amount
    \/ /\ Cur.type \in {"Dispute", "Resolve", "Chargeback"}
       /\ CurTarget = -1
    \/ /\ Cur.type = "Dispute"
       /\ CurTarget # -1
       /\ Get(transactions, CurTarget).disputed
    \/ /\ Cur.type \in {"Resolve", "Chargeback"}
       /\ CurTarget # -1
       /\ ~Get(transactions, CurTarget).disputed

\* C8: a record that breaks a business rule is a silent no-op: the loop goes
\* on to the next position, every record keeps its disputed flag and the
\* account table changes at most by the zero-valued account of the record's
\* client.
C8_ViolationsAreNoOps ==
    [][(LoopStep /\ CurViolatesRule) =>
         /\ accounts' = GetMut(accounts, Cur.client)
         /\ transactions' = transactions
         /\ pc' = "loop" /\ index' = index + 1]_vars

\* C8's case: a Chargeback of a deposit nobody disputed was processed for the
\* deposit's unlocked owner.
C8_Witness ==
    /\ AfterRecord
    /\ Prev.type = "Chargeback"
    /\ LET target == GetTxMut(transactions, tx_index_map, Prev.tx)
       IN /\ target # -1
          /\ target < index - 1
          /\ Get(transactions, target).type = "Deposit"
          /\ Get(transactions, target).client = Prev.client
          /\ ~Get(transactions, target).disputed
          /\ ~accounts[Prev.client].locked
          /\ accounts[Prev.client].total > 0

\* C9: the positions handed to the processor so far are 0, 1, 2, ... in that
\* order, each once; inside a call they end just below the loop variable,
\* between calls at the cursor, which then equals the store's length.
C9_EachPositionOnceInOrder ==
    /\ handed = [i \in 1..Len(handed) |-> i - 1]
    /\ Len(handed) = IF pc = "loop" THEN index
                     ELSE last_processed_transaction_index
    /\ last_processed_transaction_index <= Len(handed)
    /\ pc = "idle" => last_processed_transaction_index = Len(transactions)

\* C9's case: a later call has processed its records after an earlier call
\* had processed others.
C9_Witness ==
    /\ pc = "loop"
    /\ 0 < last_processed_transaction_index
    /\ last_processed_transaction_index < index
    /\ index = Len(transactions)

\* C10: an effective Dispute by an unlocked client moves the target's amount
\* from available to held, leaves total and locked alone and marks the
\* target disputed; a Resolve of the same target by the same client right
\* after it gives back the account and the store as they were before the
\* Dispute.
C10_DisputeThenResolveIsIdentity ==
    [][(/\ LoopStep
        /\ Cur.type = "Dispute"
        /\ ~Seen(accounts, Cur.client).locked
        /\ CurTarget # -1
        /\ ~Get(transactions, CurTarget).disputed
        /\ Get(transactions, CurTarget).amount # NoAmount) =>
         LET c == Cur.client
             a == Get(transactions, CurTarget).amount
             before == Seen(accounts, c)
             after == accounts'[c]
             resolved == ProcessTransaction(accounts', transactions',
                                            tx_index_map, index + 1, c)
         IN /\ after.available = before.available - a
            /\ after.held = before.held + a
            /\ after.total = before.total
            /\ after.locked = before.locked
            /\ transactions' =
                 [transactions EXCEPT ![CurTarget + 1].disputed = TRUE]
            /\ (/\ index + 1 < Len(transactions)
                /\ Get(transactions, index + 1)
                     = [Cur EXCEPT !.type = "Resolve"])
               => /\ resolved.accounts = GetMut(accounts, c)
                  /\ resolved.transactions = transactions]_vars

\* C10's case: a deposit, its dispute and its resolve, all of one client,
\* were processed and the deposit is available again.
C10_Witness ==
    /\ AfterRecord
    /\ index = 3
    /\ Get(transactions, 0).type = "Deposit"
    /\ Get(transactions, 0).amount # NoAmount
    /\ Get(transactions, 1) =
         [Get(transactions, 0) EXCEPT !.type = "Dispute", !.amount = NoAmount]
    /\ Get(transactions, 2) = [Get(transactions, 1) EXCEPT !.type = "Resolve"]
    /\ tx_index_map[Prev.tx] = 0
    /\ ~Get(transactions, 0).disputed
    /\ accounts[Prev.client].held = 0
    /\ accounts[Prev.client].available = Get(transactions, 0).amount

\* The record about to be processed is a Chargeback that takes effect.
CurEffectiveChargeback ==
    /\ Cur.type = "Chargeback"
    /\ ~Seen(accounts, Cur.client).locked
    /\ CurTarget # -1
    /\ Get(transactions, CurTarget).disputed
    /\ Get(transactions, CurTarget).amount # NoAmount

\* The account of a client after a deposit, its dispute and its chargeback.
ChargedBack(c) ==
    [client |-> c, available |-> 0, held |-> 0, total |-> 0, locked |-> TRUE]

\* The store is a deposit with an amount, its dispute and its chargeback, all
\* of one client and all processed.
DepositDisputeChargeback(txs, done) ==
    /\ Len(txs) = 3 /\ done = 3
    /\ Get(txs, 0).type = "Deposit" /\ Get(txs, 0).amount # NoAmount
    /\ [Get(txs, 1) EXCEPT !.disputed = FALSE]
         = [Get(txs, 0) EXCEPT !.type = "Dispute", !.amount = NoAmount,
                               !.disputed = FALSE]
    /\ Get(txs, 2) = [Get(txs, 1) EXCEPT !.type = "Chargeback"]

\* C11: an effective Chargeback takes the target's amount from held and from
\* total, leaves available alone and locks the account; a deposit, its
\* dispute and its chargeback on a fresh client end with 0, 0, 0, locked.
C11_ChargebackEffect ==
    [][LoopStep =>
         /\ CurEffectiveChargeback =>
              LET a == Get(transactions, CurTarget).amount
                  before == Seen(accounts, Cur.client)
                  after == accounts'[Cur.client]
              IN /\ after.held = before.held - a
                 /\ after.total = before.total - a
                 /\ after.available = before.available
                 /\ after.locked
         /\ DepositDisputeChargeback(transactions', index')
              => accounts' = (Cur.client :> ChargedBack(Cur.client))]_vars

\* C11's case: the deposit, dispute, chargeback scenario has run.
C11_Witness ==
    /\ pc = "loop"
    /\ DepositDisputeChargeback(transactions, index)
    /\ Get(transactions, 0).amount > 0
    /\ accounts[Prev.client] = ChargedBack(Prev.client)

\* C12: for an unlocked client and a record with an amount that is not
\* disputed, a Deposit adds the amount to available and total, a Withdrawal
\* with available >= amount takes it from both, held and locked stay, and no
\* other account changes.
C12_DepositWithdrawalEffect ==
    [][(/\ LoopStep
        /\ Cur.type \in {"Deposit", "Withdrawal"}
        /\ ~Seen(accounts, Cur.client).locked
        /\ ~Cur.disputed
        /\ Cur.amount # NoAmount
        /\ Cur.type = "Withdrawal"
             => Seen(accounts, Cur.client).available >= Cur.amount) =>
         LET before == Seen(accounts, Cur.client)
             d == IF Cur.type = "Deposit" THEN Cur.amount ELSE 0 - Cur.amount
         IN accounts' =
              [GetMut(accounts, Cur.client) EXCEPT ![Cur.client] =
                  [before EXCEPT !.available = before.available + d,
                                 !.total = before.total + d]]]_vars

\* C12's case: a deposit and a withdrawal of all of it were processed for one
\* client while another client's account held funds.
C12_Witness ==
    /\ AfterRecord
    /\ index >= 2
    /\ Prev.type = "Withdrawal" /\ Prev.amount > 0 /\ ~Prev.disputed
    /\ Get(transactions, index - 2) =
         [Prev EXCEPT !.type = "Deposit", !.tx = Get(transactions, index - 2).tx]
    /\ accounts[Prev.client] = NewAccount(Prev.client)
    /\ \E c \in DOMAIN accounts : c # Prev.client /\ accounts[c].total > 0

\* The clients of the records handed to process_transaction so far.
ProcessedClients(txs, done) ==
    {Get(txs, done[i]).client : i \in 1..Len(done)}

\* The table accts with a zero-valued, unlocked account added for client c.
WithZeroAccount(accts, c) ==
    [d \in (DOMAIN accts) \cup {c} |->
        IF d = c
        THEN [client |-> c, available |-> 0, held |-> 0, total |-> 0,
              locked |-> FALSE]
        ELSE accts[d]]

\* C13: the table holds an account for exactly the clients of the records
\* processed so far, whatever their kind or effect; an account is created
\* zero-valued and unlocked by the first record of its client (which is then
\* applied to it), no account is removed and none is unlocked.
C13_AccountLifecycle ==
    [][/\ DOMAIN accounts' = ProcessedClients(transactions', handed')
       /\ DOMAIN accounts \subseteq DOMAIN accounts'
       /\ \A c \in DOMAIN accounts :
            accounts[c].locked => accounts'[c].locked
       /\ \A c \in (DOMAIN accounts') \ (DOMAIN accounts) :
            /\ LoopStep
            /\ c = Cur.client
            /\ accounts' =
                 ProcessTransaction(WithZeroAccount(accounts, c), transactions,
                                    tx_index_map, index, c).accounts
            /\ CurViolatesRule =>
                 accounts'[c] = WithZeroAccount(accounts, c)[c]]_vars

\* C13's case: the only record processed is a Resolve without a target, and
\* its client has a zero-valued account.
C13_Witness ==
    /\ handed = <<0>>
    /\ Get(transactions, 0).type = "Resolve"
    /\ GetTxMut(transactions, tx_index_map, Get(transactions, 0).tx) = -1
    /\ DOMAIN accounts = {Get(transactions, 0).client}
    /\ accounts[Get(transactions, 0).client].total = 0
    /\ ~accounts[Get(transactions, 0).client].locked

\* The positions of the Deposit and Withdrawal records with tx id t.
TargetPositions(txs, t) ==
    {p \in 0..(Len(txs) - 1) :
        Get(txs, p).type \in {"Deposit", "Withdrawal"} /\ Get(txs, p).tx = t}

\* C14: the index has a key for exactly the tx ids of the store's Deposit and
\* Withdrawal records and maps each to the position of the last of them; a tx
\* id only dispute-family records carry is absent; the index kept over the
\* appends equals the index built from scratch over the whole store.
C14_IndexIsLastOccurrence ==
    /\ DOMAIN tx_index_map =
         {t \in TxIds : TargetPositions(transactions, t) # {}}
    /\ \A t \in DOMAIN tx_index_map :
         /\ tx_index_map[t] \in TargetPositions(transactions, t)
         /\ \A p \in TargetPositions(transactions, t) : p <= tx_index_map[t]
    /\ tx_index_map = PopulateMap(transactions, << >>)

\* C14's case: after two appends, one tx id is carried by two deposits or
\* withdrawals, the second in the second batch, and the other tx id by a
\* dispute-family record only.
C14_Witness ==
    /\ pc = "loop"
    /\ last_processed_transaction_index > 0
    /\ \E t \in DOMAIN tx_index_map :
         /\ Cardinality(TargetPositions(transactions, t)) = 2
         /\ tx_index_map[t] >= last_processed_transaction_index
    /\ \E p \in 1..Len(transactions) :
         /\ transactions[p].type \in {"Dispute", "Resolve", "Chargeback"}
         /\ transactions[p].tx \notin DOMAIN tx_index_map

\* C15 (as claimed): a Deposit read with disputed = FALSE is still not
\* disputed when the loop applies it, so every Deposit with an amount for an
\* unlocked client is credited to available and total.
C15_DepositAppliedUndisputed ==
    [][(LoopStep /\ Cur.type = "Deposit") =>
         /\ ~Cur.disputed
         /\ (Cur.amount # NoAmount /\ ~Seen(accounts, Cur.client).locked) =>
              LET before == Seen(accounts, Cur.client)
                  after == accounts'[Cur.client]
              IN /\ after.available = before.available + Cur.amount
                 /\ after.total = before.total + Cur.amount]_vars

\* The loop step changes an account (beyond get_mut's creation) or a record.
StepTakesEffect ==
    \/ accounts' # GetMut(accounts, Cur.client)
    \/ transactions' # transactions

\* C16 (as claimed): a Dispute, Resolve or Chargeback at position p takes
\* effect only on a target at a position below p; one whose tx id matches
\* only a record at a later position is a no-op.
C16_TargetsAreEarlier ==
    [][(/\ LoopStep
        /\ Cur.type \in {"Dispute", "Resolve", "Chargeback"}
        /\ StepTakesEffect)
         => CurTarget < index]_vars

\* The record about to be processed is a Dispute / a Resolve that takes
\* effect on the record at position p.
CurEffectiveOn(type, p) ==
    /\ Cur.type = type
    /\ ~Seen(accounts, Cur.client).locked
    /\ CurTarget = p
    /\ Get(transactions, p).amount # NoAmount

\* C17: a record's disputed flag changes only from FALSE to TRUE on the
\* target of an effective Dispute and from TRUE to FALSE on the target of an
\* effective Resolve; every other step, an effective Chargeback included,
\* leaves every record's flag as it is, and appended records are undisputed.
C17_DisputedFlagFrame ==
    [][/\ Len(transactions') >= Len(transactions)
       /\ \A p \in 1..Len(transactions') :
            IF p > Len(transactions)
            THEN ~transactions'[p].disputed
            ELSE /\ [transactions'[p] EXCEPT !.disputed = FALSE]
                      = [transactions[p] EXCEPT !.disputed = FALSE]
                 /\ (~transactions[p].disputed /\ transactions'[p].disputed)
                      => LoopStep /\ CurEffectiveOn("Dispute", p - 1)
                 /\ (transactions[p].disputed /\ ~transactions'[p].disputed)
                      => LoopStep /\ CurEffectiveOn("Resolve", p - 1)
       /\ (LoopStep /\ Cur.type \notin {"Dispute", "Resolve"})
            => transactions' = transactions
       /\ (LoopStep /\ CurEffectiveChargeback)
            => transactions'[CurTarget + 1].disputed]_vars

\* C17's case: an effective Chargeback was the last record processed; its
\* target, an earlier deposit of the same client, is still disputed.
C17_Witness ==
    /\ AfterRecord
    /\ Prev.type = "Chargeback"
    /\ accounts[Prev.client].locked
    /\ LET target == GetTxMut(transactions, tx_index_map, Prev.tx)
       IN /\ target # -1
          /\ target < index - 1
          /\ Get(transactions, target).client = Prev.client
          /\ Get(transactions, target).amount > 0
          /\ Get(transactions, target).disputed
    /\ \A p \in 0..(index - 2) : Get(transactions, p).type # "Chargeback"

\* C18: processing a record of client c changes no account but c's: every
\* other account keeps all its fields, and no account but c's is created.
C18_OnlyOwnAccountChanges ==
    [][LoopStep =>
         /\ DOMAIN accounts' \subseteq (DOMAIN accounts) \cup {Cur.client}
         /\ \A d \in DOMAIN accounts :
              d # Cur.client => accounts'[d] = accounts[d]]_vars

\* C18's case: client d's Dispute of a deposit of client c was processed: the
\* amount is held in d's account and c's account still has it available.
C18_Witness ==
    /\ AfterRecord
    /\ Prev.type = "Dispute"
    /\ LET target == GetTxMut(transactions, tx_index_map, Prev.tx)
       IN /\ target # -1
          /\ target < index - 1
          /\ Get(transactions, target).type = "Deposit"
          /\ Get(transactions, target).client # Prev.client
          /\ Get(transactions, target).amount > 0
          /\ Get(transactions, target).disputed
          /\ accounts[Prev.client].held = Get(transactions, target).amount
          /\ accounts[Get(transactions, target).client].available
               = Get(transactions, target).amount
          /\ accounts[Get(transactions, target).client].held = 0

\* C19 (as claimed): with no negative amount in the input and an empty
\* table to start from, no account ever has held below zero.
C19_HeldNeverNegative ==
    \A c \in DOMAIN accounts : accounts[c].held >= 0

\* Client c is locked in the table accts.
Locked(accts, c) == c \in DOMAIN accts /\ accts[c].locked

\* C20: an account becomes locked only in a step that processes a Chargeback
\* carrying its client id, for the unlocked client and with a disputed target;
\* so every locked client has a processed Chargeback record of its own, and
\* Deposit, Withdrawal, Dispute and Resolve lock nothing.
C20_LockedOnlyByChargeback ==
    [][/\ \A c \in DOMAIN accounts' :
            (accounts'[c].locked /\ ~Locked(accounts, c)) =>
                /\ LoopStep
                /\ Cur.client = c
                /\ CurEffectiveChargeback
       /\ \A c \in DOMAIN accounts' :
            accounts'[c].locked =>
                \E i \in 1..Len(handed') :
                    /\ Get(transactions', handed'[i]).type = "Chargeback"
                    /\ Get(transactions', handed'[i]).client = c]_vars

\* C20's case: a client is locked by its Chargeback of another client's
\* disputed deposit, and the deposit's owner is not locked.
C20_Witness ==
    /\ AfterRecord
    /\ Prev.type = "Chargeback"
    /\ accounts[Prev.client].locked
    /\ LET target == GetTxMut(transactions, tx_index_map, Prev.tx)
       IN /\ target # -1
          /\ Get(transactions, target).client # Prev.client
          /\ Get(transactions, target).disputed
          /\ ~Locked(accounts, Get(transactions, target).client)

====
